---- MODULE Spec2Model ----
(***************************************************************************)
(* FinTrack: the price adapter (data_fetcher.py), the valuation and        *)
(* cash-flow engine (portfolio_analyzer.py), the flat-file store           *)
(* (storage.py) and the session handlers of main.py, as a state machine.   *)
(*                                                                         *)
(* Python floats are modelled as exact rationals <<num, den>> (den > 0,    *)
(* lowest terms); None is the empty tuple; calendar dates are <<y, m, d>>. *)
(* A dict is a function whose DOMAIN is its set of keys.                   *)
(***************************************************************************)
EXTENDS Integers, Sequences, FiniteSets, TLC

VARIABLES
    portfolio,          \* st.session_state.portfolio: the list of holding dicts
    analysis_results,   \* st.session_state.analysis_results (None before a run)
    run,                \* how the last analyze_portfolio call ended, and what it handed the solver
    scheme_codes,       \* DataFetcher._scheme_codes (Unfetched = Python None)
    market,             \* what the external providers answer right now
    nav_call,           \* the last get_historical_nav call: its data, probes and result
    cat_call            \* the last catalog-backed call: whether it queried the provider

vars == <<portfolio, analysis_results, run, scheme_codes, market, nav_call, cat_call>>

----------------------------------------------------------------------------
(* Bounds of the model *)

MaxAssets == 2      \* holdings a portfolio may hold
MaxQuotes == 2      \* dated NAV quotes the provider may publish (SpecNav)

----------------------------------------------------------------------------
(* Python values *)

None == <<>>

Abs(x) == IF x < 0 THEN -x ELSE x

RECURSIVE GCD(_, _)
GCD(a, b) == IF b = 0 THEN a ELSE GCD(b, a % b)

\* the float n/d, d # 0
Rat(n, d) ==
    LET g == GCD(Abs(n), Abs(d))
        s == IF d < 0 THEN -1 ELSE 1
    IN  <<(s * n) \div g, (s * d) \div g>>

Float(n) == <<n, 1>>
Zero == Float(0)

FAdd(a, b) == Rat(a[1] * b[2] + b[1] * a[2], a[2] * b[2])
FSub(a, b) == Rat(a[1] * b[2] - b[1] * a[2], a[2] * b[2])
FMul(a, b) == Rat(a[1] * b[1], a[2] * b[2])
FDiv(a, b) == Rat(a[1] * b[2], a[2] * b[1])
FNeg(a) == <<-a[1], a[2]>>
FLt(a, b) == a[1] * b[2] < b[1] * a[2]
FPos(a) == a[1] > 0

\* "if x:" on an Optional[float]
Truthy(x) == x # None /\ x # Zero

\* dict.get(key, default) and dict[key] = value
Get(d, k, default) == IF k \in DOMAIN d THEN d[k] ELSE default
Put(d, k, v) == [x \in DOMAIN d \cup {k} |-> IF x = k THEN v ELSE d[x]]

RECURSIVE SumSeq(_)
SumSeq(s) == IF s = <<>> THEN Zero ELSE FAdd(Head(s), SumSeq(Tail(s)))

----------------------------------------------------------------------------
(* datetime.date and calendar *)

IsLeap(y) == (y % 4 = 0 /\ y % 100 # 0) \/ y % 400 = 0

\* calendar.monthrange(year, month)[1]
last_day_of_month(year, month) ==
    IF month = 2 THEN (IF IsLeap(year) THEN 29 ELSE 28)
    ELSE IF month \in {4, 6, 9, 11} THEN 30 ELSE 31

RECURSIVE DaysBeforeMonth(_, _)
DaysBeforeMonth(y, m) ==
    IF m = 1 THEN 0 ELSE DaysBeforeMonth(y, m - 1) + last_day_of_month(y, m - 1)

\* date.toordinal(): days since 0001-01-01, proleptic Gregorian
Ordinal(dt) ==
    LET y == dt[1] - 1
    IN  y * 365 + (y \div 4) - (y \div 100) + (y \div 400)
        + DaysBeforeMonth(dt[1], dt[2]) + dt[3]

\* (a - b).days
DaysBetween(a, b) == Ordinal(a) - Ordinal(b)

\* the last day of the month before dt's
PrevMonthEnd(dt) ==
    IF dt[2] > 1 THEN <<dt[1], dt[2] - 1, last_day_of_month(dt[1], dt[2] - 1)>>
    ELSE <<dt[1] - 1, 12, 31>>

\* dt - timedelta(days = n), n >= 0
RECURSIVE MinusDays(_, _)
MinusDays(dt, n) ==
    IF n < dt[3] THEN <<dt[1], dt[2], dt[3] - n>>
    ELSE MinusDays(PrevMonthEnd(dt), n - dt[3])

\* dates order as their (year, month, day) tuples
DateLt(a, b) ==
    \/ a[1] < b[1]
    \/ a[1] = b[1] /\ a[2] < b[2]
    \/ a[1] = b[1] /\ a[2] = b[2] /\ a[3] < b[3]

\* strftime("%d-%m-%Y"): the key the fund provider is asked for
strftime_dmy(dt) == <<dt[3], dt[2], dt[1]>>

\* date.today(), the same through a run
Today == <<2024, 3, 1>>

----------------------------------------------------------------------------
(* The external providers (mftool, yfinance, the XIRR solver) *)

\* what get_scheme_historical_nav / get_scheme_details answers for one key
NoData == [kind |-> "nodata", nav |-> 0]     \* no list, or an empty one
NoNav == [kind |-> "nonav", nav |-> 0]       \* an entry without a "nav" value
BadNav == [kind |-> "bad", nav |-> 0]        \* a "nav" that is no number ("N.A.")
Raises == [kind |-> "raise", nav |-> 0]      \* the provider call raises
Num(n) == [kind |-> "num", nav |-> n]        \* a numeric "nav"

\* the provider's answer for a key of a sparse table
Answer(table, key) == IF key \in DOMAIN table THEN table[key] ELSE NoData

CatalogOne == << <<"101", "Fund A">> >>
CatalogTwo == << <<"101", "Fund A">>, <<"102", "Fund B">> >>

\* name.lower().strip()
NormalizeName(name) ==
    CASE name = "Fund A" -> "fund a"
      [] name = " fund a " -> "fund a"
      [] name = "Fund B" -> "fund b"
      [] OTHER -> name

----------------------------------------------------------------------------
(* data_fetcher.py *)

Unfetched == [fetched |-> FALSE, codes |-> <<>>]
Memo(codes) == [fetched |-> TRUE, codes |-> codes]

\* {} when the provider raises or answers nothing
fetch_scheme_codes(mkt) ==
    IF ~mkt.catalog.up \/ mkt.catalog.codes = <<>> THEN <<>> ELSE mkt.catalog.codes

\* the memo after "if self._scheme_codes is None: self._scheme_codes = ..."
MemoAfterLookup(memo, mkt) ==
    IF ~memo.fetched THEN Memo(fetch_scheme_codes(mkt)) ELSE memo

\* whether that lookup asked the provider for the catalog
QueriesProvider(memo) == ~memo.fetched

RECURSIVE FirstCode(_, _)
FirstCode(codes, fund_name) ==
    IF codes = <<>> THEN None
    ELSE IF NormalizeName(Head(codes)[2]) = NormalizeName(fund_name)
         THEN <<Head(codes)[1]>>
         ELSE FirstCode(Tail(codes), fund_name)

\* <<code>> or None, with the memo the call leaves behind
get_scheme_code(memo, mkt, fund_name) ==
    LET after == MemoAfterLookup(memo, mkt)
    IN  [code |-> FirstCode(after.codes, fund_name), memo |-> after]

get_all_fund_names(memo, mkt) ==
    LET after == MemoAfterLookup(memo, mkt)
    IN  [names |-> [i \in 1..Len(after.codes) |-> after.codes[i][2]], memo |-> after]

fallback_days == <<0, 1, 2, 3, 5, 7, 10, 15, 30, 45, 60>>

\* the loop of get_historical_nav from the i-th offset on; probes is the log of
\* the offsets asked for so far
RECURSIVE ProbeFrom(_, _, _, _, _)
ProbeFrom(navs, code, purchase_date, i, probes) ==
    IF i > Len(fallback_days) THEN [value |-> None, probes |-> probes]
    ELSE
        LET days == fallback_days[i]
            fetch_date_str == strftime_dmy(MinusDays(purchase_date, days))
            q == Answer(navs, <<code, fetch_date_str>>)
            log == Append(probes, days)
        IN  CASE q.kind = "raise" -> [value |-> None, probes |-> log]
              [] q.kind = "bad" -> [value |-> None, probes |-> log]
              [] q.kind = "num" /\ q.nav > 0 -> [value |-> Float(q.nav), probes |-> log]
              [] OTHER -> ProbeFrom(navs, code, purchase_date, i + 1, log)

get_historical_nav(memo, mkt, fund_name, purchase_date) ==
    LET sc == get_scheme_code(memo, mkt, fund_name)
    IN  IF sc.code = None
        THEN [value |-> None, probes |-> <<>>, memo |-> sc.memo]
        ELSE LET r == ProbeFrom(mkt.navs, sc.code[1], purchase_date, 1, <<>>)
             IN  [value |-> r.value, probes |-> r.probes, memo |-> sc.memo]

\* yf.download(symbol, start = date, end = date + 1): the Close of that day, or None
get_stock_data(mkt, symbol, dt) ==
    IF <<symbol, dt>> \in DOMAIN mkt.stock_close THEN Float(mkt.stock_close[<<symbol, dt>>])
    ELSE None

get_current_price(memo, mkt, asset_type, asset_name) ==
    IF asset_type = "Mutual Fund"
    THEN LET sc == get_scheme_code(memo, mkt, asset_name)
             q == IF sc.code = None THEN NoData ELSE Answer(mkt.current, sc.code[1])
         IN  IF q.kind = "num" /\ q.nav > 0 THEN Float(q.nav) ELSE None
    ELSE IF asset_type = "Stock"
    THEN IF asset_name \in DOMAIN mkt.stock_last THEN Float(mkt.stock_last[asset_name])
         ELSE None
    ELSE None

\* a fund is valid by definition; a ticker is valid when its info names a currency
is_asset_valid(asset_type, has_currency) ==
    IF asset_type = "Mutual Fund" THEN TRUE
    ELSE IF asset_type = "Stock" THEN has_currency
    ELSE FALSE

----------------------------------------------------------------------------
(* portfolio_analyzer.py *)

NA == <<>>      \* the "N/A" a return metric is reported as

\* the months a SIP has run, the current one included
number_of_months(purchase_date) ==
    (Today[1] - purchase_date[1]) * 12 + (Today[2] - purchase_date[2]) + 1

\* the date of the i-th monthly installment, i = 0, 1, ...
installment_date(purchase_date, i) ==
    LET current_month == purchase_date[2] + i
        current_year == purchase_date[1] + (current_month - 1) \div 12
        installment_month == ((current_month - 1) % 12) + 1
        last == last_day_of_month(current_year, installment_month)
        day == IF purchase_date[3] < last THEN purchase_date[3] ELSE last
    IN  <<current_year, installment_month, day>>

\* npf.xirr(cash_flows, dates) on flows <<date, amount>>: the rate, here the
\* 1-tuple of the series it was solved for, or NA when the solver raises or
\* the flows have no sign change
solver_xirr(mkt, flows) ==
    IF /\ mkt.solver = "converges"
       /\ \E i \in 1..Len(flows) : FPos(flows[i][2])
       /\ \E i \in 1..Len(flows) : FPos(FNeg(flows[i][2]))
    THEN <<flows>>
    ELSE NA

\* one turn of the installment loop, given the installment's date and NAV
RECURSIVE SipLoop(_, _, _, _, _, _)
SipStep(memo, mkt, asset, i, n, acc, dt, monthly_nav) ==
    IF Truthy(monthly_nav)
    THEN SipLoop(memo, mkt, asset, i + 1, n,
            [units |-> FAdd(acc.units, FDiv(asset["Amount Invested"], monthly_nav)),
             flows |-> Append(acc.flows, <<dt, FNeg(asset["Amount Invested"])>>),
             valid |-> TRUE])
    ELSE [acc EXCEPT !.valid = FALSE]

\* the installment loop: acc is (units_or_shares, flows, all_installments_valid)
SipLoop(memo, mkt, asset, i, n, acc) ==
    IF i >= n THEN acc
    ELSE SipStep(memo, mkt, asset, i, n, acc,
                 installment_date(asset["Purchase Date"], i),
                 get_historical_nav(memo, mkt, asset["Name"],
                                    installment_date(asset["Purchase Date"], i)).value)

\* the price on the purchase date and the price now, each a float or None
purchase_price_of(memo, mkt, asset) ==
    IF asset["Type"] = "Mutual Fund"
    THEN get_historical_nav(memo, mkt, asset["Name"], asset["Purchase Date"]).value
    ELSE IF asset["Type"] = "Stock"
    THEN get_stock_data(mkt, asset["Name"], asset["Purchase Date"])
    ELSE None

current_price_of(memo, mkt, asset) ==
    IF asset["Type"] \in {"Mutual Fund", "Stock"}
    THEN get_current_price(memo, mkt, asset["Type"], asset["Name"])
    ELSE None

\* a variant of the test at line 43 that also turns away a SIP holding listing
\* no transactions
price_or_transactions_missing(asset, purchase_price, current_price) ==
    \/ purchase_price = None
    \/ current_price = None
    \/ (Get(asset, "Investment Type", "") = "SIP" /\ "transactions" \notin DOMAIN asset)

\* "if purchase_price is None or current_price is None"
price_missing(asset, purchase_price, current_price) ==
    purchase_price = None \/ current_price = None

\* a variant of line 78 in which units the holding states itself come first
explicit_units_first(asset, total_invested, purchase_price) ==
    IF "units_owned" \in DOMAIN asset /\ FPos(asset["units_owned"])
    THEN asset["units_owned"]
    ELSE FDiv(total_invested, purchase_price)

\* the units of a holding bought in one go
lumpsum_units(asset, total_invested, purchase_price) ==
    FDiv(total_invested, purchase_price)

\* (current_value / total_invested) ** (1 / years_held) on Python floats raises
\* OverflowError once the power passes the largest double (about 2^1024). With
\* years_held = days / 365.25 a ratio of at least 8^days gives a power of at
\* least 8^365.25 = 2^1095, so the test below names inputs that certainly raise.
\* A Stock's purchase price is a numpy scalar, whose power yields inf instead.
cagr_overflows(asset, ratio, days) ==
    /\ asset["Type"] = "Mutual Fund"
    /\ days <= 9
    /\ ~FLt(ratio, Float(8 ^ days))

\* float nan, what 0.0 / 0.0 gives where it does not raise
NaN == <<0, 0>>

\* a variant of line 90 without the test of total_invested
percentage_unguarded(gain_loss, total_invested) ==
    IF total_invested = Zero THEN NaN
    ELSE FMul(FDiv(gain_loss, total_invested), Float(100))

\* "Percentage Return"
percentage_of(gain_loss, total_invested) ==
    IF FPos(total_invested)
    THEN FMul(FDiv(gain_loss, total_invested), Float(100))
    ELSE Zero

\* the fields every valued holding gets
Valued(asset, total_invested, purchase_price, current_price, units_or_shares) ==
    ("Total Invested" :> total_invested)
    @@ ("Purchase Price" :> purchase_price)
    @@ ("Current Price" :> current_price)
    @@ ("Units/Shares" :> units_or_shares)
    @@ ("Current Value" :> FMul(units_or_shares, current_price))
    @@ ("Gain/Loss" :> FSub(FMul(units_or_shares, current_price), total_invested))
    @@ ("Percentage Return" :>
            percentage_of(FSub(FMul(units_or_shares, current_price), total_invested),
                          total_invested))
    @@ asset

\* a SIP holding once its installment loop has run
FinishSip(mkt, loop, valued) ==
    [raised |-> FALSE,
     asset |-> Put(valued, "XIRR",
                   IF loop.valid /\ FPos(valued["Current Value"])
                   THEN solver_xirr(mkt, Append(loop.flows, <<Today, valued["Current Value"]>>))
                   ELSE NA)]

AnalyzeSip(mkt, asset, current_price, total_invested, loop) ==
    FinishSip(mkt, loop,
              Valued(asset, total_invested,
                     IF FPos(loop.units) THEN FDiv(total_invested, loop.units) ELSE Zero,
                     current_price, loop.units))

\* a lump-sum holding once it is valued: its CAGR, or the raise of the power
FinishLumpsum(asset, valued, total_invested, days) ==
    IF days > 0 /\ FPos(total_invested)
    THEN IF cagr_overflows(asset, FDiv(valued["Current Value"], total_invested), days)
         THEN [raised |-> TRUE, asset |-> valued]
         ELSE [raised |-> FALSE,
               asset |-> Put(valued, "CAGR",
                             <<FDiv(valued["Current Value"], total_invested), days>>)]
    ELSE [raised |-> FALSE, asset |-> Put(valued, "CAGR", NA)]

\* _analyze_single_asset from line 43 on, the two prices fetched
AnalyzePriced(memo, mkt, asset, purchase_price, current_price) ==
    IF price_missing(asset, purchase_price, current_price)
    THEN [raised |-> FALSE, asset |-> Put(asset, "error", "Could not fetch price/NAV data.")]
    ELSE IF asset["Type"] = "Mutual Fund" /\ Get(asset, "Investment Type", "") = "SIP"
    THEN AnalyzeSip(mkt, asset, current_price,
                    FMul(asset["Amount Invested"],
                         Float(number_of_months(asset["Purchase Date"]))),
                    SipLoop(memo, mkt, asset, 0, number_of_months(asset["Purchase Date"]),
                            [units |-> Zero, flows |-> <<>>, valid |-> TRUE]))
    ELSE FinishLumpsum(asset,
                       Valued(asset, asset["Amount Invested"], purchase_price, current_price,
                              lumpsum_units(asset, asset["Amount Invested"], purchase_price)),
                       asset["Amount Invested"],
                       DaysBetween(Today, asset["Purchase Date"]))

\* _analyze_single_asset: the enriched dict, or raised
analyze_single_asset(memo, mkt, asset) ==
    AnalyzePriced(memo, mkt, asset,
                  purchase_price_of(memo, mkt, asset), current_price_of(memo, mkt, asset))

\* sorted(zip(dates, cash_flows)): by date, then by amount
PairLt(a, b) == DateLt(a[1], b[1]) \/ (a[1] = b[1] /\ FLt(a[2], b[2]))

RECURSIVE Insert(_, _)
Insert(x, s) ==
    IF s = <<>> THEN <<x>>
    ELSE IF PairLt(Head(s), x) THEN <<Head(s)>> \o Insert(x, Tail(s))
    ELSE <<x>> \o s

RECURSIVE Sorted(_)
Sorted(s) == IF s = <<>> THEN <<>> ELSE Insert(Head(s), Sorted(Tail(s)))

\* a variant of line 164 that hands the flows over in the order collected
unsorted_flows(flows) == flows

\* the order the flows are handed to the solver in
sorted_flows(flows) == Sorted(flows)

RECURSIVE InstallmentFlows(_, _, _)
InstallmentFlows(asset, i, n) ==
    IF i >= n THEN <<>>
    ELSE <<<<installment_date(asset["Purchase Date"], i), FNeg(asset["Amount Invested"])>>>>
         \o InstallmentFlows(asset, i + 1, n)

\* the outflows one result adds to the portfolio series
AssetFlows(asset) ==
    IF "error" \in DOMAIN asset THEN <<>>
    ELSE IF Get(asset, "Investment Type", "") # "SIP"
    THEN <<<<asset["Purchase Date"], FNeg(asset["Total Invested"])>>>>
    ELSE InstallmentFlows(asset, 0, number_of_months(asset["Purchase Date"]))

RECURSIVE AllFlows(_)
AllFlows(results) ==
    IF results = <<>> THEN <<>> ELSE AssetFlows(Head(results)) \o AllFlows(Tail(results))

valid_assets(detailed_results) ==
    SelectSeq(detailed_results, LAMBDA a : "error" \notin DOMAIN a)

SumOf(assets, key) == SumSeq([i \in 1..Len(assets) |-> Get(assets[i], key, Zero)])

\* the solve at the end of calculate_portfolio_xirr, on the flows collected
SolveSeries(mkt, flows) ==
    IF flows = <<>>
    THEN [value |-> NA, called |-> FALSE, flows |-> <<>>]
    ELSE [value |-> solver_xirr(mkt, flows), called |-> TRUE, flows |-> flows]

\* the terminal inflow, when the portfolio is worth anything
TerminalFlow(total_current_value) ==
    IF FPos(total_current_value) THEN <<<<Today, total_current_value>>>> ELSE <<>>

\* calculate_portfolio_xirr: its value, whether the solver was reached and
\* the flows it was handed
calculate_portfolio_xirr(mkt, detailed_results) ==
    SolveSeries(mkt,
        sorted_flows(AllFlows(detailed_results)
                     \o TerminalFlow(SumOf(valid_assets(detailed_results), "Current Value"))))

\* a variant of line 117 that sums the wrong column
invested_as_current_value(detailed_results) ==
    SumOf(valid_assets(detailed_results), "Total Invested")

\* line 117
total_current_value_of(detailed_results) ==
    SumOf(valid_assets(detailed_results), "Current Value")

\* the dict returned, the two totals summed
Summary(total_invested, total_current_value) ==
    ("Total Invested" :> total_invested)
    @@ ("Total Current Value" :> total_current_value)
    @@ ("Total Gain/Loss" :> FSub(total_current_value, total_invested))
    @@ ("Percentage Return" :>
            percentage_of(FSub(total_current_value, total_invested), total_invested))

\* the dict aggregate_portfolio_results returns; the portfolio XIRR it computes
\* on the way (line 121) is put under no key
aggregate_portfolio_results(mkt, detailed_results) ==
    Summary(SumOf(valid_assets(detailed_results), "Total Invested"),
            total_current_value_of(detailed_results))

\* a variant of line 21 that passes the caller's dict itself
no_copy(asset) == [work |-> asset, shared |-> TRUE]

\* asset.copy(): the dict the analysis writes to is not the caller's
copy_for_analysis(asset) == [work |-> asset, shared |-> FALSE]

\* the loop of analyze_portfolio from the i-th holding on: the results so far,
\* the caller's list as the loop leaves it, and whether a holding raised
RECURSIVE AnalyzeFrom(_, _, _, _, _, _)
AnalyzeStep(memo, mkt, assets, i, details, after, r) ==
    IF r.raised THEN [raised |-> TRUE, details |-> details, after |-> after]
    ELSE AnalyzeFrom(memo, mkt, assets, i + 1, Append(details, r.asset), after)

AnalyzeArg(memo, mkt, assets, i, details, after, arg) ==
    AnalyzeStep(memo, mkt, assets, i, details,
                IF arg.shared
                THEN [after EXCEPT ![i] = analyze_single_asset(memo, mkt, arg.work).asset]
                ELSE after,
                analyze_single_asset(memo, mkt, arg.work))

AnalyzeFrom(memo, mkt, assets, i, details, after) ==
    IF i > Len(assets) THEN [raised |-> FALSE, details |-> details, after |-> after]
    ELSE AnalyzeArg(memo, mkt, assets, i, details, after, copy_for_analysis(assets[i]))

\* what analyze_portfolio leaves once its loop has ended
AfterLoop(mkt, assets, loop, px) ==
    IF loop.raised
    THEN [raised |-> TRUE, results |-> None, after |-> loop.after,
          reached |-> Len(loop.details) + 1,
          solver_called |-> FALSE, flows |-> <<>>]
    ELSE [raised |-> FALSE,
          results |-> [details |-> loop.details,
                       summary |-> aggregate_portfolio_results(mkt, loop.details)],
          after |-> loop.after, reached |-> Len(assets),
          solver_called |-> px.called, flows |-> px.flows]

WithLoop(mkt, assets, loop) ==
    AfterLoop(mkt, assets, loop, calculate_portfolio_xirr(mkt, loop.details))

analyze_portfolio(memo, mkt, assets) ==
    WithLoop(mkt, assets, AnalyzeFrom(memo, mkt, assets, 1, <<>>, assets))

----------------------------------------------------------------------------
(* States before anything has run *)

BaseMarket ==
    [catalog |-> [up |-> TRUE, codes |-> CatalogOne],
     navs |-> <<>>, current |-> <<>>,
     stock_close |-> <<>>, stock_last |-> <<>>,
     solver |-> "raises"]

NoRun == [status |-> "none", solver_called |-> FALSE, flows |-> <<>>,
          inputs |-> <<>>, rerun |-> FALSE]

NoNavCall == [called |-> FALSE, date |-> Today, data |-> <<>>,
              value |-> None, probes |-> <<>>]

NoCatCall == [called |-> FALSE, op |-> "", name |-> "", memo_before |-> Unfetched,
              queried |-> FALSE, result |-> <<>>]

----------------------------------------------------------------------------
(* SpecNav: one DataFetcher answering get_historical_nav while the fund     *)
(* provider publishes dated quotes                                          *)

NavDates == {<<2024, 3, 1>>, <<2024, 1, 2>>}
QuoteOffsets == {0, 1, 2, 3, 4, 60}
QuoteDates == {MinusDays(d, k) : d \in NavDates, k \in QuoteOffsets}
Quotes == {NoNav, BadNav, Raises, Num(0), Num(10), Num(12)}

InitNav ==
    /\ portfolio = <<>>
    /\ analysis_results = None
    /\ run = NoRun
    /\ scheme_codes = Unfetched
    /\ market = BaseMarket
    /\ nav_call = NoNavCall
    /\ cat_call = NoCatCall

\* the provider starts answering q for the fund on date dt
PublishQuote(dt, q) ==
    LET key == <<"101", strftime_dmy(dt)>>
    IN  /\ Cardinality(DOMAIN market.navs) < MaxQuotes
        /\ key \notin DOMAIN market.navs
        /\ market' = [market EXCEPT !.navs = (key :> q) @@ @]
        /\ UNCHANGED <<portfolio, analysis_results, run, scheme_codes, nav_call, cat_call>>

CallHistoricalNav(fund_name, dt) ==
    LET r == get_historical_nav(scheme_codes, market, fund_name, dt)
    IN  /\ nav_call' = [called |-> TRUE, date |-> dt, data |-> market.navs,
                        value |-> r.value, probes |-> r.probes]
        /\ scheme_codes' = r.memo
        /\ UNCHANGED <<portfolio, analysis_results, run, market, cat_call>>

NextNav ==
    \/ \E dt \in QuoteDates, q \in Quotes : PublishQuote(dt, q)
    \/ \E dt \in NavDates : CallHistoricalNav("Fund A", dt)

SpecNav == InitNav /\ [][NextNav]_vars

----------------------------------------------------------------------------
(* SpecCatalog: one DataFetcher answering catalog-backed calls while the    *)
(* provider's catalog comes and goes                                        *)

CatalogAnswers ==
    {[up |-> FALSE, codes |-> CatalogOne], [up |-> TRUE, codes |-> <<>>],
     [up |-> TRUE, codes |-> CatalogOne], [up |-> TRUE, codes |-> CatalogTwo]}

LookupNames == {"Fund A", " fund a ", "Fund B", "Fund Z"}

InitCatalog == InitNav

CatalogChanges(c) ==
    /\ c # market.catalog
    /\ market' = [market EXCEPT !.catalog = c]
    /\ UNCHANGED <<portfolio, analysis_results, run, scheme_codes, nav_call, cat_call>>

CallGetSchemeCode(fund_name) ==
    LET r == get_scheme_code(scheme_codes, market, fund_name)
    IN  /\ cat_call' = [called |-> TRUE, op |-> "get_scheme_code",
                        name |-> fund_name, memo_before |-> scheme_codes,
                        queried |-> QueriesProvider(scheme_codes),
                        result |-> r.code]
        /\ scheme_codes' = r.memo
        /\ UNCHANGED <<portfolio, analysis_results, run, market, nav_call>>

CallGetAllFundNames ==
    LET r == get_all_fund_names(scheme_codes, market)
    IN  /\ cat_call' = [called |-> TRUE, op |-> "get_all_fund_names",
                        name |-> "", memo_before |-> scheme_codes,
                        queried |-> QueriesProvider(scheme_codes),
                        result |-> r.names]
        /\ scheme_codes' = r.memo
        /\ UNCHANGED <<portfolio, analysis_results, run, market, nav_call>>

NextCatalog ==
    \/ \E c \in CatalogAnswers : CatalogChanges(c)
    \/ \E n \in LookupNames : CallGetSchemeCode(n)
    \/ CallGetAllFundNames

SpecCatalog == InitCatalog /\ [][NextCatalog]_vars

----------------------------------------------------------------------------
(* storage.py *)

\* date.isoformat(): the digits of "YYYY-MM-DD"
isoformat(dt) ==
    <<dt[1] \div 1000, (dt[1] \div 100) % 10, (dt[1] \div 10) % 10, dt[1] % 10,
      dt[2] \div 10, dt[2] % 10, dt[3] \div 10, dt[3] % 10>>

\* date.fromisoformat()
fromisoformat(str) ==
    <<str[1] * 1000 + str[2] * 100 + str[3] * 10 + str[4],
      str[5] * 10 + str[6], str[7] * 10 + str[8]>>

\* isinstance(value, str): a date is a triple, its ISO string eight digits
IsStr(value) == Len(value) = 8

serialize_asset(asset) ==
    IF "Purchase Date" \in DOMAIN asset /\ ~IsStr(asset["Purchase Date"])
    THEN Put(asset, "Purchase Date", isoformat(asset["Purchase Date"]))
    ELSE asset

deserialize_asset(asset) ==
    IF "Purchase Date" \in DOMAIN asset /\ IsStr(asset["Purchase Date"])
    THEN Put(asset, "Purchase Date", fromisoformat(asset["Purchase Date"]))
    ELSE asset

\* load_portfolio() on a file holding data
load_portfolio(data) == [i \in 1..Len(data) |-> deserialize_asset(data[i])]

----------------------------------------------------------------------------
(* main.py *)

DEFAULT_DATE == <<2000, 1, 1>>

\* the dict built from the form
new_asset(asset_type, asset_name, amount_invested, purchase_date, inv_type) ==
    ("Type" :> asset_type) @@ ("Name" :> asset_name)
    @@ ("Amount Invested" :> Float(amount_invested))
    @@ ("Purchase Date" :> purchase_date) @@ ("Investment Type" :> inv_type)

\* what the form is filled with: (type, name, amount, date, investment type)
FormInputs ==
    {<<"Mutual Fund", "Fund A", 600, <<2024, 2, 29>>, "Lumpsum">>,
     <<"Mutual Fund", "Fund A", 600, <<2024, 1, 31>>, "Lumpsum">>,
     <<"Mutual Fund", "Fund A", 600, <<2024, 1, 31>>, "SIP">>,
     <<"Stock", "TICK", 600, <<2024, 1, 31>>, "Lumpsum">>,
     <<"Stock", "TICK", 600, <<2024, 1, 31>>, "SIP">>}

\* a portfolio file written outside the form: its records also carry the
\* units the user holds
StoredFiles ==
    {<< serialize_asset(new_asset("Mutual Fund", "Fund A", 600, <<2024, 1, 31>>, "Lumpsum")
                        @@ ("units_owned" :> Float(50))),
        serialize_asset(new_asset("Mutual Fund", "Fund A", 600, <<2024, 1, 31>>, "SIP")
                        @@ ("units_owned" :> Float(50))) >>}

\* the provider snapshots an analysis may meet
NavKeys == {<<"101", strftime_dmy(<<2024, 1, 31>>)>>, <<"101", strftime_dmy(<<2024, 2, 29>>)>>}
NavTables == {[k \in ks |-> Num(10)] : ks \in SUBSET NavKeys}
CurrentTables == {<<>>, "101" :> Num(80)}
StockTables ==
    {[close |-> <<>>, last |-> <<>>],
     [close |-> (<<"TICK", <<2024, 1, 31>>>> :> 20), last |-> ("TICK" :> 30)]}

Markets ==
    {[catalog |-> c, navs |-> n, current |-> cur,
      stock_close |-> st.close, stock_last |-> st.last, solver |-> sv] :
        c \in {[up |-> TRUE, codes |-> CatalogOne], [up |-> FALSE, codes |-> CatalogOne]},
        n \in NavTables, cur \in CurrentTables, st \in StockTables,
        sv \in {"raises", "converges"}}

Init ==
    /\ portfolio = <<>>
    /\ analysis_results = None
    /\ run = NoRun
    /\ scheme_codes = Unfetched
    /\ market \in Markets
    /\ nav_call = NoNavCall
    /\ cat_call = NoCatCall

\* the portfolio list is read from a stored file as the session starts
LoadPortfolio(data) ==
    /\ portfolio = <<>>
    /\ run.status = "none"
    /\ Len(data) <= MaxAssets
    /\ portfolio' = load_portfolio(data)
    /\ UNCHANGED <<analysis_results, run, scheme_codes, market, nav_call, cat_call>>

\* "Add to Portfolio" submitted with a valid form
AddAsset(f, has_currency) ==
    /\ Len(portfolio) < MaxAssets
    /\ f[4] # DEFAULT_DATE
    /\ f[2] # "" /\ f[3] # 0
    /\ ~DateLt(Today, f[4])
    /\ is_asset_valid(f[1], has_currency)
    /\ portfolio' = Append(portfolio, new_asset(f[1], f[2], f[3], f[4], f[5]))
    /\ UNCHANGED <<analysis_results, run, scheme_codes, market, nav_call, cat_call>>

\* the session once the call has ended as r
KeepRun(r) ==
    /\ portfolio' = r.after
    /\ analysis_results' = IF r.raised THEN analysis_results ELSE r.results
    /\ run' = [status |-> IF r.raised THEN "raised" ELSE "returned",
               solver_called |-> r.solver_called, flows |-> r.flows,
               inputs |-> <<portfolio, market>>,
               rerun |-> run.status # "none" /\ run.inputs = <<portfolio, market>>]
    /\ scheme_codes' =
         IF \E i \in 1..r.reached : portfolio[i]["Type"] = "Mutual Fund"
         THEN MemoAfterLookup(Unfetched, market) ELSE Unfetched

\* "Analyze Full Portfolio": a new DataFetcher, one analyze_portfolio call, and
\* the results kept in the session unless the call raised
AnalyzeClick ==
    /\ portfolio # <<>>
    /\ KeepRun(analyze_portfolio(Unfetched, market, portfolio))
    /\ UNCHANGED <<market, nav_call, cat_call>>

Next ==
    \/ \E data \in StoredFiles : LoadPortfolio(data)
    \/ \E f \in FormInputs, has_currency \in BOOLEAN : AddAsset(f, has_currency)
    \/ AnalyzeClick

Spec == Init /\ [][Next]_vars

----------------------------------------------------------------------------
(* SpecApi: analyze_portfolio called directly on a list the caller built,   *)
(* the empty list and holdings of amount 0 included                         *)

ApiHoldings ==
    {new_asset("Mutual Fund", "Fund A", 0, <<2024, 1, 31>>, "Lumpsum"),
     new_asset("Mutual Fund", "Fund A", 0, <<2024, 1, 31>>, "SIP"),
     new_asset("Mutual Fund", "Fund A", 600, <<2024, 1, 31>>, "Lumpsum"),
     new_asset("Stock", "TICK", 0, <<2024, 1, 31>>, "Lumpsum")}

ApiPortfolios == UNION {[1..n -> ApiHoldings] : n \in 0..MaxAssets}

InitApi == Init

\* the caller builds the list it is going to pass
BuildList(assets) ==
    /\ run.status = "none"
    /\ portfolio = <<>>
    /\ portfolio' = assets
    /\ UNCHANGED <<analysis_results, run, scheme_codes, market, nav_call, cat_call>>

\* PortfolioAnalyzer(DataFetcher()).analyze_portfolio(portfolio)
CallAnalyzePortfolio ==
    /\ KeepRun(analyze_portfolio(Unfetched, market, portfolio))
    /\ UNCHANGED <<market, nav_call, cat_call>>

NextApi ==
    \/ \E assets \in ApiPortfolios : BuildList(assets)
    \/ CallAnalyzePortfolio

SpecApi == InitApi /\ [][NextApi]_vars

----------------------------------------------------------------------------
(* Claims about the price adapter *)

\* the positions of fallback_days whose quote, in the data of the last call,
\* is a strictly positive number
PositiveAt(call) ==
    {i \in 1..Len(fallback_days) :
        LET q == Answer(call.data,
                        <<"101", strftime_dmy(MinusDays(call.date, fallback_days[i]))>>)
        IN  q.kind = "num" /\ q.nav > 0}

FirstPositive(call) == CHOOSE i \in PositiveAt(call) : \A j \in PositiveAt(call) : i <= j

\* C1: get_historical_nav probes the offsets 0, 1, 2, 3, 5, 7, 10, 15, 30, 45, 60
\* in that order, returns the price at the first offset whose quote is strictly
\* positive and probes nothing after it, and returns None when no offset has a
\* strictly positive quote (having probed them all).
C1_FirstPositiveOffset ==
    nav_call.called =>
        IF PositiveAt(nav_call) = {}
        THEN nav_call.value = None /\ nav_call.probes = fallback_days
        ELSE LET i == FirstPositive(nav_call)
                 q == Answer(nav_call.data,
                             <<"101", strftime_dmy(MinusDays(nav_call.date, fallback_days[i]))>>)
             IN  /\ nav_call.value = Float(q.nav)
                 /\ nav_call.probes = SubSeq(fallback_days, 1, i)

\* C8: a call that finds the memoized catalog empty (never fetched, or fetched
\* and empty) queries the provider; a call that finds it non-empty does not.
C8_RefetchWhenEmpty ==
    cat_call.called =>
        (cat_call.queried <=> cat_call.memo_before.codes = <<>>)

----------------------------------------------------------------------------
(* Claims about the analysis *)

\* the last run returned; its results are the ones the session holds
Returned == run.status = "returned"

ErrorFree(result) == "error" \notin DOMAIN result

\* the sum of one column over the results without an error annotation
RECURSIVE SumField(_, _, _)
SumField(results, key, i) ==
    IF i > Len(results) THEN Zero
    ELSE FAdd(IF ErrorFree(results[i]) THEN Get(results[i], key, Zero) ELSE Zero,
              SumField(results, key, i + 1))

\* the purchase-date price or the current price of the holding is Unavailable
Unpriced(holding, mkt) ==
    \/ purchase_price_of(Unfetched, mkt, holding) = None
    \/ current_price_of(Unfetched, mkt, holding) = None

IsSip(holding) ==
    holding["Type"] = "Mutual Fund" /\ Get(holding, "Investment Type", "") = "SIP"

TotalsAreSums ==
    Returned =>
        /\ analysis_results.summary["Total Invested"]
             = SumField(analysis_results.details, "Total Invested", 1)
        /\ analysis_results.summary["Total Current Value"]
             = SumField(analysis_results.details, "Current Value", 1)

\* this step is a run on the portfolio of the run before plus one holding,
\* unpriced, at its end; both runs return
RunsWithUnpricedAppended ==
    /\ Returned
    /\ run'.status = "returned"
    /\ Len(run'.inputs[1]) = Len(run.inputs[1]) + 1
    /\ SubSeq(run'.inputs[1], 1, Len(run.inputs[1])) = run.inputs[1]
    /\ run'.inputs[2] = run.inputs[2]
    /\ Unpriced(run'.inputs[1][Len(run'.inputs[1])], run'.inputs[2])

AppendedIsAnnotated ==
    /\ analysis_results'.summary["Total Invested"]
         = analysis_results.summary["Total Invested"]
    /\ analysis_results'.summary["Total Current Value"]
         = analysis_results.summary["Total Current Value"]
    /\ Len(analysis_results'.details) = Len(analysis_results.details) + 1
    /\ SubSeq(analysis_results'.details, 1, Len(analysis_results.details))
         = analysis_results.details
    /\ ~ErrorFree(analysis_results'.details[Len(analysis_results'.details)])

\* C2: the summary's 'Total Invested' and 'Total Current Value' are the sums
\* over exactly the results without an error annotation; and a run on a
\* portfolio to which one holding with an Unavailable price was appended gives
\* the totals of the run before it and one more entry in details, annotated.
C2_TotalsOverUnannotated ==
    [](TotalsAreSums) /\ [][RunsWithUnpricedAppended => AppendedIsAnnotated]_vars

\* a run returned a valued holding followed by an unpriced, annotated one
C2_Witness ==
    /\ Returned
    /\ Len(analysis_results.details) = 2
    /\ ErrorFree(analysis_results.details[1])
    /\ ~ErrorFree(analysis_results.details[2])
    /\ Unpriced(run.inputs[1][2], run.inputs[2])
    /\ FPos(analysis_results.summary["Total Current Value"])

\* C3: analyze_portfolio never raises because of one holding: every run
\* returns details with one record per holding and a summary.
C3_NeverRaises ==
    run.status # "none" =>
        /\ Returned
        /\ Len(analysis_results.details) = Len(run.inputs[1])
        /\ {"Total Invested", "Total Current Value", "Total Gain/Loss",
            "Percentage Return"} \subseteq DOMAIN analysis_results.summary

\* the NAV of some installment of the SIP holding is Unavailable
InstallmentUnavailable(holding, mkt) ==
    \E k \in 0..(number_of_months(holding["Purchase Date"]) - 1) :
        get_historical_nav(Unfetched, mkt, holding["Name"],
                           installment_date(holding["Purchase Date"], k)).value = None

\* C4: when the NAV of any installment of a SIP holding is Unavailable, the
\* holding's result carries an error annotation (and so stays out of the
\* totals).
C4_InstallmentFailureAnnotated ==
    Returned =>
        \A i \in 1..Len(analysis_results.details) :
            (IsSip(run.inputs[1][i]) /\ InstallmentUnavailable(run.inputs[1][i], run.inputs[2]))
                => ~ErrorFree(analysis_results.details[i])

\* the units a SIP holding collects: installment amount / installment NAV,
\* month by month up to the first installment whose NAV is Unavailable
RECURSIVE SipUnits(_, _, _)
SipUnits(holding, mkt, k) ==
    IF k >= number_of_months(holding["Purchase Date"]) THEN Zero
    ELSE IF get_historical_nav(Unfetched, mkt, holding["Name"],
                               installment_date(holding["Purchase Date"], k)).value = None
    THEN Zero
    ELSE FAdd(FDiv(holding["Amount Invested"],
                   get_historical_nav(Unfetched, mkt, holding["Name"],
                                      installment_date(holding["Purchase Date"], k)).value),
              SipUnits(holding, mkt, k + 1))

\* the units the analysis derives for a holding from the prices it fetches
DerivedUnits(holding, mkt) ==
    IF IsSip(holding) THEN SipUnits(holding, mkt, 0)
    ELSE FDiv(holding["Amount Invested"], purchase_price_of(Unfetched, mkt, holding))

StatesUnits(holding) ==
    "units_owned" \in DOMAIN holding /\ FPos(holding["units_owned"])

SipWithoutTransactions(holding) ==
    Get(holding, "Investment Type", "") = "SIP" /\ "transactions" \notin DOMAIN holding

\* C6 as the specification states it: a SIP holding with no transactions is
\* always annotated as an error and gets no units or current value.
C6_SipWithoutTransactionsUnresolved ==
    Returned =>
        \A i \in 1..Len(analysis_results.details) :
            SipWithoutTransactions(run.inputs[1][i])
                => /\ ~ErrorFree(analysis_results.details[i])
                   /\ "Units/Shares" \notin DOMAIN analysis_results.details[i]
                   /\ "Current Value" \notin DOMAIN analysis_results.details[i]

\* C6: in a run that returns, a SIP holding with no transactions is annotated
\* as an error exactly when its purchase-date price or its current price is
\* Unavailable; otherwise its units are derived from NAV lookups and its
\* current value is those units at the current price.
C6_SipValuedFromLookups ==
    Returned =>
        \A i \in 1..Len(analysis_results.details) :
            SipWithoutTransactions(run.inputs[1][i])
                => /\ ~ErrorFree(analysis_results.details[i])
                        <=> Unpriced(run.inputs[1][i], run.inputs[2])
                   /\ ErrorFree(analysis_results.details[i])
                        => /\ analysis_results.details[i]["Units/Shares"]
                                = DerivedUnits(run.inputs[1][i], run.inputs[2])
                           /\ analysis_results.details[i]["Current Value"]
                                = FMul(DerivedUnits(run.inputs[1][i], run.inputs[2]),
                                       current_price_of(Unfetched, run.inputs[2],
                                                        run.inputs[1][i]))

\* a mutual-fund SIP entered through the form was valued and counted
C6_Witness ==
    /\ Returned
    /\ \E i \in 1..Len(analysis_results.details) :
        /\ IsSip(run.inputs[1][i])
        /\ SipWithoutTransactions(run.inputs[1][i])
        /\ ErrorFree(analysis_results.details[i])
        /\ FPos(analysis_results.details[i]["Units/Shares"])
    /\ FPos(analysis_results.summary["Total Current Value"])

\* C7: the summary a run returns holds the portfolio-level XIRR next to the
\* four totals.
C7_SummaryHoldsXirr ==
    Returned =>
        {"Total Invested", "Total Current Value", "Total Gain/Loss",
         "Percentage Return", "Portfolio XIRR"} \subseteq DOMAIN analysis_results.summary

\* the outflows a result owes the portfolio series: the whole investment on
\* the purchase date, or one installment on each installment date
OutflowsOf(result) ==
    IF Get(result, "Investment Type", "") # "SIP"
    THEN {<<result["Purchase Date"], FNeg(result["Total Invested"])>>}
    ELSE {<<installment_date(result["Purchase Date"], k), FNeg(result["Amount Invested"])>> :
            k \in 0..(number_of_months(result["Purchase Date"]) - 1)}

InSeries(flow) == \E i \in 1..Len(run.flows) : run.flows[i] = flow

SameInputsAgain == run.status # "none" /\ run.inputs = <<portfolio, market>>

----------------------------------------------------------------------------
(* Claims about the figures of a result *)

\* every holding passed to the last run has total_invested 0
NothingInvested ==
    \A i \in 1..Len(run.inputs[1]) : run.inputs[1][i]["Amount Invested"] = Zero

\* C11: 'Percentage Return' is exactly 0 whenever total_invested is 0, in each
\* holding's result and in the summary (the empty portfolio and the portfolio
\* whose holdings are all errored included), and a run on holdings that all
\* have total_invested 0 does not raise.
C11_ZeroInvestedZeroReturn ==
    /\ Returned =>
        /\ \A i \in 1..Len(analysis_results.details) :
            (ErrorFree(analysis_results.details[i])
                /\ analysis_results.details[i]["Total Invested"] = Zero)
                    => analysis_results.details[i]["Percentage Return"] = Zero
        /\ analysis_results.summary["Total Invested"] = Zero
                => analysis_results.summary["Percentage Return"] = Zero
    /\ (run.status # "none" /\ NothingInvested) => Returned

\* a run returned a valued holding of amount 0 next to an errored one
C11_Witness ==
    /\ Returned
    /\ Len(analysis_results.details) = 2
    /\ \E i \in 1..2 :
        /\ ErrorFree(analysis_results.details[i])
        /\ analysis_results.details[i]["Total Invested"] = Zero
        /\ analysis_results.details[i]["Percentage Return"] = Zero
    /\ \E i \in 1..2 : ~ErrorFree(analysis_results.details[i])
    /\ analysis_results.summary["Total Invested"] = Zero

\* the installments of a SIP bought on purchase_date that have fallen due
FallenDue(purchase_date) ==
    {k \in 0..number_of_months(purchase_date) :
        ~DateLt(Today, installment_date(purchase_date, k))}

\* the series a SIP result's XIRR was solved for ends with the inflow of today,
\* no flow is dated later, and it has one outflow per installment fallen due
SeriesEndsToday(result) ==
    result["XIRR"] # NA =>
        /\ result["XIRR"][1][Len(result["XIRR"][1])] = <<Today, result["Current Value"]>>
        /\ \A j \in 1..Len(result["XIRR"][1]) : ~DateLt(Today, result["XIRR"][1][j][1])
        /\ Len(result["XIRR"][1]) - 1 = Cardinality(FallenDue(result["Purchase Date"]))

\* C12: for a SIP holding first paid on or before today the installment dates
\* the analysis generates are strictly increasing and none is later than
\* today, so the holding's XIRR series ends with today's inflow and has as many
\* outflows as installments have fallen due.
C12_InstallmentsFallenDue ==
    Returned =>
        \A i \in 1..Len(analysis_results.details) :
            (IsSip(run.inputs[1][i]) /\ ErrorFree(analysis_results.details[i])
                /\ ~DateLt(Today, run.inputs[1][i]["Purchase Date"]))
                => /\ \A k \in 0..(number_of_months(run.inputs[1][i]["Purchase Date"]) - 2) :
                        DateLt(installment_date(run.inputs[1][i]["Purchase Date"], k),
                               installment_date(run.inputs[1][i]["Purchase Date"], k + 1))
                   /\ \A k \in 0..(number_of_months(run.inputs[1][i]["Purchase Date"]) - 1) :
                        ~DateLt(Today, installment_date(run.inputs[1][i]["Purchase Date"], k))
                   /\ SeriesEndsToday(analysis_results.details[i])

\* the outflows the installment loop records for a SIP holding, one per
\* installment that contributed units
RecordedOutflows(holding, mkt) ==
    SipLoop(Unfetched, mkt, holding, 0, number_of_months(holding["Purchase Date"]),
            [units |-> Zero, flows |-> <<>>, valid |-> TRUE]).flows

RECURSIVE SumMagnitudes(_)
SumMagnitudes(flows) ==
    IF flows = <<>> THEN Zero
    ELSE FAdd(FNeg(Head(flows)[2]), SumMagnitudes(Tail(flows)))

ValueAndGainAgree(result) ==
    /\ result["Current Value"] = FMul(result["Units/Shares"], result["Current Price"])
    /\ result["Gain/Loss"] = FSub(result["Current Value"], result["Total Invested"])

\* C13: in every result without an error annotation 'Current Value' is
\* 'Units/Shares' x 'Current Price' and 'Gain/Loss' is 'Current Value' -
\* 'Total Invested'; and a SIP holding's 'Total Invested' is the sum of the
\* magnitudes of the outflows recorded for it.
C13_FiguresAgree ==
    Returned =>
        \A i \in 1..Len(analysis_results.details) :
            ErrorFree(analysis_results.details[i])
                => /\ ValueAndGainAgree(analysis_results.details[i])
                   /\ IsSip(run.inputs[1][i])
                        => analysis_results.details[i]["Total Invested"]
                             = SumMagnitudes(RecordedOutflows(run.inputs[1][i], run.inputs[2]))

====
